---------------------------- MODULE Spec2Model ----------------------------
(***************************************************************************)
(* Heating cycle engine (src/src/heating.hpp) and preset store             *)
(* (src/src/preset.hpp) of the soldering pen firmware.                     *)
(*                                                                         *)
(* Time is counted in ticks of the core clock.  The engine's handlers are  *)
(* pure operators over a record `w` holding every object the handler can   *)
(* touch (heating, preset, pid, adc, heater); the actions apply them to    *)
(* the variables.  C integer division truncates toward zero (CDiv).        *)
(***************************************************************************)
EXTENDS Integers, Sequences, FiniteSets, TLC

VARIABLES heating, preset, pid, adc, heater, host, ui

vars == <<heating, preset, pid, adc, heater, host, ui>>

(***************************************************************************)
(* Program constants                                                       *)
(***************************************************************************)
\* board::Clock::CORE_FREQ (board/clock.hpp): 1 tick = 1 ms in the model
CORE_FREQ == 1000

PERIOD_TIME_MS == 150
STANDBY_TIME_MS == 30000
PID_K_PROPORTIONAL == 700
PID_K_INTEGRAL == 200
PID_K_DERIVATE == 100
HEATING_POWER_MAX == 40000
IDLE_MIN_TIME_MS == 8
STABILIZE_TIME_MS == 2
HEATING_MIN_POWER_MW == 100
PEN_MAX_CURRENT_MA == 6000
PEN_RESISTANCE_SHORTED == 500
PEN_RESISTANCE_MIN == 1500
PEN_RESISTANCE_MAX == 2500
PEN_RESISTANCE_BROKEN == 100000
RESISTANCE_INFINITE == 1000000000

PRESETS == 2
NO_EDIT == -1
MIN_TEMPERATURE == 20000
MAX_TEMPERATURE == 400000
STANDBY_TEMPERATURE == 0
PRESET_0_TEMPERATURE == 300000
PRESET_1_TEMPERATURE == 250000

\* gain scale of lib::Pid (lib/pid.hpp)
PID_SCALE == 1000

(***************************************************************************)
(* Bounds of the model                                                     *)
(***************************************************************************)
\* periods one run starts
MaxPeriods == 3
\* ticks of one host call that comes late (longer than the standby time), at
\* most once per run and only between periods
LateDelta == 30001
\* operations of one run of the preset store
MaxUiOps == 4
\* periods of one run of the pen left untouched
MaxSteadyPeriods == 256
\* periods of one run of the host loop that never stops calling
MaxLivePeriods == 2

(***************************************************************************)
(* C arithmetic                                                            *)
(***************************************************************************)
Abs(x) == IF x < 0 THEN -x ELSE x

\* C's integer division: truncation toward zero
CDiv(a, b) ==
    IF (a >= 0) = (b > 0) THEN Abs(a) \div Abs(b) ELSE -(Abs(a) \div Abs(b))

\* limits of int (32 bits)
INT_MAX == (2 ^ 30 - 1) + 2 ^ 30
INT_MIN == (-INT_MAX) - 1

\* a + b overflows int
AddOverflows(a, b) ==
    \/ b > 0 /\ a > INT_MAX - b
    \/ b < 0 /\ a < INT_MIN - b

\* a + b wrapped to 32 bits, for a + b that overflows
AddWrapped(a, b) ==
    IF b > 0 THEN ((a - INT_MAX) - 1) + ((b - INT_MAX) - 1)
    ELSE ((a + INT_MAX) + 1) + ((b + INT_MAX) + 1)

(* int64_t values: <<k, r>> stands for k * WIDE_BASE + r, 0 <= r < WIDE_BASE. *)
(* The model checker's integers are 32 bits wide; the pairs keep the 64-bit   *)
(* accumulators of heating.hpp exact.                                         *)
WIDE_BASE == 1000000

WideZero == <<0, 0>>

WideNorm(k, r) == <<k + (r \div WIDE_BASE), r % WIDE_BASE>>

WideAdd(a, b) == WideNorm(a[1] + b[1], a[2] + b[2])

\* a > b
WideGt(a, b) == a[1] > b[1] \/ (a[1] = b[1] /\ a[2] > b[2])

WideNeg(a) == WideNorm(-a[1], -a[2])

\* the int m times the int t, |m| < 2^31, 0 <= t < 2000
WideMul(m, t) == WideNorm((m \div WIDE_BASE) * t, (m % WIDE_BASE) * t)

\* a / d truncated toward zero, 0 < d <= 2000, as an int
WideDivNonNeg(a, d) ==
    ((a[1] \div d) * WIDE_BASE) + ((((a[1] % d) * WIDE_BASE) + a[2]) \div d)

WideDiv(a, d) ==
    IF a[1] >= 0 THEN WideDivNonNeg(a, d) ELSE -WideDivNonNeg(WideNeg(a), d)

(***************************************************************************)
(* Preset store (preset.hpp).  temperatures[i + 1] is _temperatures[i].    *)
(***************************************************************************)
PresetInit ==
    [temperatures |-> <<PRESET_0_TEMPERATURE, PRESET_1_TEMPERATURE>>,
     selected |-> 0,
     edited |-> NO_EDIT,
     standby |-> TRUE]

ValidIndex(i) == i >= 0 /\ i < PRESETS

\* what a read outside _temperatures may return
StrayInts == {-1, 2, 500000}

\* the early return of select and edit_select
RejectsPreset(i) == (i < 0) /\ (i >= PRESETS)

SetStandby(p) == [p EXCEPT !.standby = TRUE]

IsStandby(p) == p.standby

Select(p, i) ==
    IF RejectsPreset(i) THEN p
    ELSE [p EXCEPT !.selected = i, !.standby = FALSE]

EditSelect(p, i) ==
    IF RejectsPreset(i) THEN p
    ELSE [p EXCEPT !.edited = i]

EditEnd(p) == [p EXCEPT !.edited = NO_EDIT]

\* the values get_temperature may return: reading _temperatures outside its
\* bounds is undefined
GetTemperature(p) ==
    IF p.standby THEN {STANDBY_TEMPERATURE}
    ELSE IF ValidIndex(p.selected) THEN {p.temperatures[p.selected + 1]}
    ELSE StrayInts

ClampTemperature(t) ==
    IF t < MIN_TEMPERATURE THEN MIN_TEMPERATURE
    ELSE IF t > MAX_TEMPERATURE THEN MAX_TEMPERATURE
    ELSE t

\* the values _temperatures[_edited] += val may store: signed overflow is
\* undefined; the build wraps, or computes the clamp on the unwrapped sum
AddedTemperature(t, val) ==
    IF AddOverflows(t, val)
    THEN {ClampTemperature(AddWrapped(t, val)),
          IF val > 0 THEN MAX_TEMPERATURE ELSE MIN_TEMPERATURE}
    ELSE {ClampTemperature(t + val)}

\* the presets edit_add may leave.  With _edited outside the array the store
\* is undefined: it lands outside the object, or on a neighbouring member.
EditAdd(p, val) ==
    IF p.edited = NO_EDIT THEN {p}
    ELSE IF ValidIndex(p.edited)
    THEN {[p EXCEPT !.temperatures[p.edited + 1] = t] :
              t \in AddedTemperature(p.temperatures[p.edited + 1], val)}
    ELSE {p}
         \cup {[p EXCEPT !.selected = t] :
                   t \in {MIN_TEMPERATURE, MAX_TEMPERATURE}}
         \cup {[p EXCEPT !.edited = t] :
                   t \in {MIN_TEMPERATURE, MAX_TEMPERATURE}}

(***************************************************************************)
(* lib::Pid (lib/pid.hpp), constants as set by Heating::init               *)
(***************************************************************************)
PidFs == CDiv(1000, PERIOD_TIME_MS)

PidReset == [integral |-> 0, prev_error |-> 0]

Clamp(x, lo, hi) == IF x < lo THEN lo ELSE IF x > hi THEN hi ELSE x

\* the controller state after process(measured, setpoint)
PidNext(c, measured, setpoint) ==
    LET error == setpoint - measured
        limit == CDiv(HEATING_POWER_MAX, PID_K_INTEGRAL)
    IN [integral |-> Clamp(c.integral + CDiv(error, PidFs), -limit, limit),
        prev_error |-> error]

\* the power process(measured, setpoint) returns
PidOutput(c, measured, setpoint) ==
    LET error == setpoint - measured
        n == PidNext(c, measured, setpoint)
        derivative == (error - c.prev_error) * PidFs
        u == CDiv(PID_K_PROPORTIONAL * error, PID_SCALE)
             + CDiv(PID_K_INTEGRAL * n.integral, PID_SCALE)
             + CDiv(PID_K_DERIVATE * derivative, PID_SCALE)
    IN Clamp(u, 0, HEATING_POWER_MAX)

(***************************************************************************)
(* board::adc and board::heater (board/adc.hpp, board/heater.hpp)          *)
(*                                                                         *)
(* adc.left: ticks until the running conversion completes (0: none         *)
(* outstanding); adc.sig: the signals the front end sees in this phase;    *)
(* adc.overlap: a measurement was started over an outstanding one.         *)
(***************************************************************************)
SigInit ==
    [cpu_voltage |-> 0, supply_voltage |-> 0, pen_current |-> 0,
     cpu_temperature |-> 0, pen_temperature |-> 0, sensor_ok |-> FALSE,
     latency |-> 1]

AdcInit == [mode |-> "none", left |-> 0, sig |-> SigInit, overlap |-> FALSE]

MeasureStart(a, mode, sig) ==
    [mode |-> mode, left |-> sig.latency, sig |-> sig,
     overlap |-> a.overlap \/ a.left > 0]

MeasureHeatStart(a, sig) == MeasureStart(a, "heat", sig)

MeasureIdleStart(a, sig) == MeasureStart(a, "idle", sig)

MeasureIsDone(a) == a.left = 0

\* the conversion runs while the host is away for d ticks
AdcElapse(a, d) == [a EXCEPT !.left = IF a.left > d THEN a.left - d ELSE 0]

HeaterInit == [on |-> FALSE, ever_on |-> FALSE]

HeaterOn(x) == [on |-> TRUE, ever_on |-> TRUE]

HeaterOff(x) == [x EXCEPT !.on = FALSE]

(***************************************************************************)
(* Heating (heating.hpp)                                                   *)
(***************************************************************************)
HeatingInit ==
    [uptime_ticks |-> 0,
     power_uwpt |-> WideZero,
     requested_power_uwpt |-> WideZero,
     energy_uwt |-> WideZero,
     steady_ticks |-> 0,
     period_ticks |-> 0,
     remaining_ticks |-> 0,
     measure_ticks |-> 0,
     measurements_count |-> 0,
     requested_power_mw |-> 0,
     cpu_voltage_mv_heat |-> 0,
     cpu_voltage_mv_idle |-> 0,
     supply_voltage_mv_heat |-> 0,
     supply_voltage_mv_idle |-> 0,
     supply_voltage_mv_drop |-> 0,
     pen_current_ma_heat |-> 0,
     pen_current_ma_idle |-> 0,
     pen_resistance_mo |-> 0,
     pen_temperature_mc |-> 0,
     cpu_temperature_mc |-> 0,
     average_requested_power |-> 0,
     average_requested_power_short |-> 0,
     state |-> "STOP",
     heating_element_status |-> "UNKNOWN",
     pen_sensor_status |-> "UNKNOWN"]

WorldInit ==
    [h |-> HeatingInit, p |-> PresetInit, pid |-> PidReset,
     adc |-> AdcInit, heater |-> HeaterInit]

Ms2Ticks(time_ms) == CDiv(time_ms * CORE_FREQ, 1000)

GetSteadyMs(h) == CDiv(h.steady_ticks, CORE_FREQ \div 1000)

GetEnergyMwh(h) == CDiv(CDiv(WideDiv(h.energy_uwt, CORE_FREQ), 1000), 3600)

GetRealPenTemperatureMc(h) == h.cpu_temperature_mc + h.pen_temperature_mc

\* SensorOk taking a sensor reported broken for a working one
SensorOkUnlessUnknown(h) == h.pen_sensor_status # "UNKNOWN"

\* heating.hpp 56: start() runs the controller
SensorOk(h) == h.pen_sensor_status = "OK"

\* start(), with the setpoint get_temperature returned
Start(w, setpoint) ==
    LET sensor_ok == SensorOk(w.h)
        measured == GetRealPenTemperatureMc(w.h)
        power_mw == IF sensor_ok THEN PidOutput(w.pid, measured, setpoint)
                    ELSE 0
        period == PERIOD_TIME_MS * (CORE_FREQ \div 1000)
    IN [w EXCEPT
          !.pid = IF sensor_ok THEN PidNext(w.pid, measured, setpoint)
                  ELSE PidReset,
          !.h.period_ticks = period,
          !.h.remaining_ticks = @ + period,
          !.h.requested_power_mw = power_mw,
          !.h.requested_power_uwpt = WideMul(power_mw * period, 1000),
          !.h.state = "START"]

\* _state_stop() without the test for a broken element
StateStopIgnoresBroken(w) ==
    LET stop == \/ w.h.pen_sensor_status # "OK"
                \/ w.h.heating_element_status = "SHORTED"
                \/ CDiv(w.h.steady_ticks, CORE_FREQ \div 1000)
                       > STANDBY_TIME_MS
    IN IF stop THEN [w EXCEPT !.p = [w.p EXCEPT !.standby = TRUE]] ELSE w

StateStop(w) ==
    LET stop == \/ w.h.pen_sensor_status # "OK"
                \/ w.h.heating_element_status = "SHORTED"
                \/ w.h.heating_element_status = "BROKEN"
                \/ GetSteadyMs(w.h) > STANDBY_TIME_MS
    IN IF stop THEN [w EXCEPT !.p = SetStandby(w.p)] ELSE w

\* _state_start() leaving a request below HEATING_MIN_POWER_MW as it is
StateStartKeepsLowRequest(w, env) ==
    LET h0 == [w.h EXCEPT !.measure_ticks = 0,
                          !.measurements_count = 0,
                          !.cpu_voltage_mv_heat = 0,
                          !.supply_voltage_mv_heat = 0,
                          !.pen_current_ma_heat = 0,
                          !.pen_current_ma_idle = 0,
                          !.power_uwpt = WideZero]
        short == CDiv(h0.average_requested_power_short * 2
                      + h0.requested_power_mw, 3)
        long == CDiv(h0.average_requested_power * 9
                     + h0.requested_power_mw, 10)
    IN IF h0.requested_power_mw < HEATING_MIN_POWER_MW
       THEN [w EXCEPT
               !.adc = MeasureIdleStart(w.adc, env.idle),
               !.h = [h0 EXCEPT !.steady_ticks = 0,
                                !.state = "IDLE"]]
       ELSE [w EXCEPT
               !.heater = HeaterOn(w.heater),
               !.adc = MeasureHeatStart(w.adc, env.heat),
               !.h = [h0 EXCEPT
                        !.average_requested_power_short = short,
                        !.average_requested_power = long,
                        !.steady_ticks =
                            IF short - long > 150 \/ short - long < -200
                            THEN 0 ELSE @,
                        !.heating_element_status = "UNKNOWN",
                        !.pen_sensor_status = "UNKNOWN",
                        !.state = "HEATING"]]

\* _state_start() taking every period for activity of the user
StateStartAlwaysActive(w, env) ==
    LET h0 == [w.h EXCEPT !.measure_ticks = 0,
                          !.measurements_count = 0,
                          !.cpu_voltage_mv_heat = 0,
                          !.supply_voltage_mv_heat = 0,
                          !.pen_current_ma_heat = 0,
                          !.pen_current_ma_idle = 0,
                          !.power_uwpt = WideZero]
    IN IF h0.requested_power_mw < HEATING_MIN_POWER_MW
       THEN [w EXCEPT
               !.adc = MeasureIdleStart(w.adc, env.idle),
               !.h = [h0 EXCEPT !.requested_power_mw = 0,
                                !.requested_power_uwpt = WideZero,
                                !.steady_ticks = 0,
                                !.state = "IDLE"]]
       ELSE [w EXCEPT
               !.heater = HeaterOn(w.heater),
               !.adc = MeasureHeatStart(w.adc, env.heat),
               !.h = [h0 EXCEPT
                        !.average_requested_power_short =
                            CDiv(@ * 2 + h0.requested_power_mw, 3),
                        !.average_requested_power =
                            CDiv(@ * 9 + h0.requested_power_mw, 10),
                        !.steady_ticks = 0,
                        !.heating_element_status = "UNKNOWN",
                        !.pen_sensor_status = "UNKNOWN",
                        !.state = "HEATING"]]

\* _state_start(); env: the signals of the heat and of the idle phase, one of
\* which begins
StateStart(w, env) ==
    LET h0 == [w.h EXCEPT !.measure_ticks = 0,
                          !.measurements_count = 0,
                          !.cpu_voltage_mv_heat = 0,
                          !.supply_voltage_mv_heat = 0,
                          !.pen_current_ma_heat = 0,
                          !.pen_current_ma_idle = 0,
                          !.power_uwpt = WideZero]
        short == CDiv(h0.average_requested_power_short * 2
                      + h0.requested_power_mw, 3)
        long == CDiv(h0.average_requested_power * 9
                     + h0.requested_power_mw, 10)
        derivate_requested_power == short - long
    IN IF h0.requested_power_mw < HEATING_MIN_POWER_MW
       THEN [w EXCEPT
               !.adc = MeasureIdleStart(w.adc, env.idle),
               !.h = [h0 EXCEPT !.requested_power_mw = 0,
                                !.requested_power_uwpt = WideZero,
                                !.steady_ticks = 0,
                                !.state = "IDLE"]]
       ELSE [w EXCEPT
               !.heater = HeaterOn(w.heater),
               !.adc = MeasureHeatStart(w.adc, env.heat),
               !.h = [h0 EXCEPT
                        !.average_requested_power_short = short,
                        !.average_requested_power = long,
                        !.steady_ticks =
                            IF derivate_requested_power > 150
                               \/ derivate_requested_power < -200
                            THEN 0 ELSE @,
                        !.heating_element_status = "UNKNOWN",
                        !.pen_sensor_status = "UNKNOWN",
                        !.state = "HEATING"]]

\* heating.hpp 390-394: resistance from the averaged supply voltage and the
\* compensated absolute pen current
PenResistance(supply_voltage_mv, pen_current_ma) ==
    IF pen_current_ma > 10
    THEN CDiv(supply_voltage_mv * 1000, pen_current_ma)
    ELSE RESISTANCE_INFINITE

\* the classes with the limit of the shorted class made inclusive
ClassifyResistanceInclusive(pen_resistance_mo) ==
    IF pen_resistance_mo <= PEN_RESISTANCE_SHORTED THEN "SHORTED"
    ELSE IF pen_resistance_mo < PEN_RESISTANCE_MIN THEN "LOW_RESISTANCE"
    ELSE IF pen_resistance_mo > PEN_RESISTANCE_BROKEN THEN "BROKEN"
    ELSE IF pen_resistance_mo > PEN_RESISTANCE_MAX THEN "HIGH_RESISTANCE"
    ELSE "OK"

\* heating.hpp 397-407
ClassifyResistance(pen_resistance_mo) ==
    IF pen_resistance_mo < PEN_RESISTANCE_SHORTED THEN "SHORTED"
    ELSE IF pen_resistance_mo < PEN_RESISTANCE_MIN THEN "LOW_RESISTANCE"
    ELSE IF pen_resistance_mo > PEN_RESISTANCE_BROKEN THEN "BROKEN"
    ELSE IF pen_resistance_mo > PEN_RESISTANCE_MAX THEN "HIGH_RESISTANCE"
    ELSE "OK"

\* HeatingStop without the check of the pen current
HeatingStopNoOverCurrent(h) ==
    \/ WideGt(h.power_uwpt, h.requested_power_uwpt)
    \/ h.remaining_ticks < Ms2Ticks(STABILIZE_TIME_MS + IDLE_MIN_TIME_MS)

\* heating.hpp 374-378: the heat phase ends on this sample
HeatingStop(h) ==
    \/ CDiv(h.pen_current_ma_heat, h.measurements_count) > PEN_MAX_CURRENT_MA
    \/ WideGt(h.power_uwpt, h.requested_power_uwpt)
    \/ h.remaining_ticks < Ms2Ticks(STABILIZE_TIME_MS + IDLE_MIN_TIME_MS)

\* heating.hpp 382-408: the heat phase's results
HeatingFinish(h) ==
    LET n == h.measurements_count
        supply == CDiv(h.supply_voltage_mv_heat, n)
        current == Abs(CDiv(h.pen_current_ma_heat, n) - h.pen_current_ma_idle)
        resistance == PenResistance(supply, current)
    IN [h EXCEPT
          !.energy_uwt = WideAdd(@, h.power_uwpt),
          !.cpu_voltage_mv_heat = CDiv(@, n),
          !.supply_voltage_mv_heat = supply,
          !.pen_current_ma_heat = current,
          !.pen_resistance_mo = resistance,
          !.supply_voltage_mv_drop = supply - h.supply_voltage_mv_idle,
          !.heating_element_status = ClassifyResistance(resistance),
          !.state = "STABILIZE"]

\* HeatingEnd without heater.off()
HeatingEndHeaterLeftOn(w, h) == [w EXCEPT !.h = HeatingFinish(h)]

\* heating.hpp 379-410: the heater is switched off, then the results are
\* computed; h: the accumulators with the last sample
HeatingEnd(w, h) ==
    [w EXCEPT !.heater = HeaterOff(w.heater), !.h = HeatingFinish(h)]

\* HeatingSampleReady without the poll of measure_is_done()
HeatingSampleReadyAlways(a) == TRUE

\* heating.hpp 364: a sample is taken once the conversion is done
HeatingSampleReady(a) == MeasureIsDone(a)

\* _state_heating(delta_ticks)
StateHeating(w, delta_ticks) ==
    LET h0 == [w.h EXCEPT !.measure_ticks = @ + delta_ticks]
        s == w.adc.sig
        h1 == [h0 EXCEPT
                 !.measurements_count = @ + 1,
                 !.cpu_voltage_mv_heat = @ + s.cpu_voltage,
                 !.supply_voltage_mv_heat = @ + s.supply_voltage,
                 !.pen_current_ma_heat = @ + s.pen_current,
                 !.power_uwpt =
                     WideAdd(@, WideMul(s.supply_voltage * s.pen_current,
                                        h0.measure_ticks)),
                 !.measure_ticks = 0]
    IN IF ~HeatingSampleReady(w.adc) THEN [w EXCEPT !.h = h0]
       ELSE IF HeatingStop(h1) THEN HeatingEnd(w, h1)
       ELSE [w EXCEPT !.adc = MeasureHeatStart(w.adc, s), !.h = h1]

\* _state_stabilize() going on to IDLE at its first call
StateStabilizeNoWait(w, delta_ticks, env) ==
    [w EXCEPT
       !.adc = MeasureIdleStart(w.adc, env.idle),
       !.h = [w.h EXCEPT !.measure_ticks = 0,
                         !.measurements_count = 0,
                         !.cpu_voltage_mv_idle = 0,
                         !.supply_voltage_mv_idle = 0,
                         !.cpu_temperature_mc = 0,
                         !.pen_temperature_mc = 0,
                         !.state = "IDLE"]]

\* _state_stabilize(delta_ticks); env.idle: the signals of the idle phase that
\* begins
StateStabilize(w, delta_ticks, env) ==
    LET h0 == [w.h EXCEPT !.measure_ticks = @ + delta_ticks]
    IN IF h0.measure_ticks < Ms2Ticks(STABILIZE_TIME_MS)
       THEN [w EXCEPT !.h = h0]
       ELSE [w EXCEPT
               !.adc = MeasureIdleStart(w.adc, env.idle),
               !.h = [h0 EXCEPT !.measure_ticks = 0,
                                !.measurements_count = 0,
                                !.cpu_voltage_mv_idle = 0,
                                !.supply_voltage_mv_idle = 0,
                                !.cpu_temperature_mc = 0,
                                !.pen_temperature_mc = 0,
                                !.state = "IDLE"]]

\* _state_idle() sampling on while remaining_ticks >= 0
StateIdleOneMore(w) ==
    LET s == w.adc.sig
        h1 == [w.h EXCEPT
                 !.cpu_voltage_mv_idle = @ + s.cpu_voltage,
                 !.supply_voltage_mv_idle = @ + s.supply_voltage,
                 !.pen_current_ma_idle = @ + s.pen_current,
                 !.cpu_temperature_mc = @ + s.cpu_temperature,
                 !.pen_temperature_mc = @ + s.pen_temperature,
                 !.measurements_count = @ + 1]
        n == h1.measurements_count
        h2 == [h1 EXCEPT
                 !.cpu_voltage_mv_idle = CDiv(@, n),
                 !.supply_voltage_mv_idle = CDiv(@, n),
                 !.pen_current_ma_idle = CDiv(@, n),
                 !.cpu_temperature_mc = CDiv(@, n),
                 !.pen_temperature_mc = CDiv(@, n),
                 !.pen_sensor_status =
                     IF s.sensor_ok THEN "OK" ELSE "BROKEN",
                 !.heating_element_status =
                     IF s.sensor_ok THEN @ ELSE "UNKNOWN",
                 !.state = "STOP"]
    IN IF ~MeasureIsDone(w.adc) THEN w
       ELSE IF h1.remaining_ticks >= 0
       THEN [w EXCEPT !.adc = MeasureIdleStart(w.adc, s), !.h = h1]
       ELSE [w EXCEPT !.h = h2]

\* _state_idle()
StateIdle(w) ==
    LET s == w.adc.sig
        h1 == [w.h EXCEPT
                 !.cpu_voltage_mv_idle = @ + s.cpu_voltage,
                 !.supply_voltage_mv_idle = @ + s.supply_voltage,
                 !.pen_current_ma_idle = @ + s.pen_current,
                 !.cpu_temperature_mc = @ + s.cpu_temperature,
                 !.pen_temperature_mc = @ + s.pen_temperature,
                 !.measurements_count = @ + 1]
        n == h1.measurements_count
        h2 == [h1 EXCEPT
                 !.cpu_voltage_mv_idle = CDiv(@, n),
                 !.supply_voltage_mv_idle = CDiv(@, n),
                 !.pen_current_ma_idle = CDiv(@, n),
                 !.cpu_temperature_mc = CDiv(@, n),
                 !.pen_temperature_mc = CDiv(@, n),
                 !.pen_sensor_status =
                     IF s.sensor_ok THEN "OK" ELSE "BROKEN",
                 !.heating_element_status =
                     IF s.sensor_ok THEN @ ELSE "UNKNOWN",
                 !.state = "STOP"]
    IN IF ~MeasureIsDone(w.adc) THEN w
       ELSE IF h1.remaining_ticks > 0
       THEN [w EXCEPT !.adc = MeasureIdleStart(w.adc, s), !.h = h1]
       ELSE [w EXCEPT !.h = h2]

\* process(delta_ticks): the engine after the call
Process(w, delta_ticks, env) ==
    LET w0 == [w EXCEPT !.h.uptime_ticks = @ + delta_ticks,
                        !.h.remaining_ticks = @ - delta_ticks,
                        !.h.steady_ticks = @ + delta_ticks]
    IN CASE w.h.state = "STOP" -> StateStop(w0)
         [] w.h.state = "START" -> StateStart(w0, env)
         [] w.h.state = "HEATING" -> StateHeating(w0, delta_ticks)
         [] w.h.state = "STABILIZE" -> StateStabilize(w0, delta_ticks, env)
         [] w.h.state = "IDLE" -> StateIdle(w0)

\* process returning true from every case of the switch
ProcessReturnsTrue(w) == TRUE

\* what process(delta_ticks) returns
ProcessReturns(w) == w.h.state # "STOP"

(***************************************************************************)
(* The host loop, the UI and the plant                                     *)
(*                                                                         *)
(* host.op: the last operation ("process", "start", "ui");                 *)
(* host.ret: FALSE from process returning false until start is called;     *)
(* host.pre_state, host.pre_standby: the engine state and the standby flag *)
(* the last engine call found; host.periods: start() calls so far;         *)
(* host.late: the late call happened; host.ok_seen: is_pen_sensor_ok() has *)
(* returned true; host.idle_ma: get_pen_current_ma_idle() at the last STOP *)
(* reached; host.off_at: the uptime at which the heater was switched off,  *)
(* while the engine is in STABILIZE.                                       *)
(* ui.op, ui.arg, ui.prev: the last preset operation, its argument and the *)
(* preset it found; ui.ops: operations so far; ui.seq: how far the         *)
(* sequence edit_select(idx); edit_add(delta); edit_end() has come since   *)
(* the preset was ui.old.                                                  *)
(***************************************************************************)
HostInit ==
    [op |-> "init", ret |-> TRUE, pre_state |-> "STOP", pre_standby |-> TRUE,
     periods |-> 0, late |-> FALSE, ok_seen |-> FALSE, idle_ma |-> 0,
     off_at |-> 0]

UiInit ==
    [op |-> "none", arg |-> 0, prev |-> PresetInit, ops |-> 0,
     seq |-> 0, old |-> PresetInit, idx |-> 0, delta |-> 0]

World ==
    [h |-> heating, p |-> preset, pid |-> pid, adc |-> adc, heater |-> heater]

Apply(n) ==
    /\ heating' = n.h
    /\ preset' = n.p
    /\ pid' = n.pid
    /\ adc' = n.adc
    /\ heater' = n.heater

\* ticks between two process calls: 1 ms
Deltas == {1}

Signal(supply, current, pen_temp, ok, latency) ==
    [cpu_voltage |-> 3300, supply_voltage |-> supply, pen_current |-> current,
     cpu_temperature |-> 25000, pen_temperature |-> pen_temp,
     sensor_ok |-> ok, latency |-> latency]

\* heat phase: a good element, a shorted one, a broken one, a reversed
\* current sensor behind a slow conversion
RunHeatSignals ==
    {Signal(5000, i, 0, TRUE, 1) : i \in {3000, 12000, 5}}
    \cup {Signal(5000, -3000, 0, TRUE, 2)}

\* idle phase: tip cold, just below the first preset, above it with a leaking
\* current behind a slow conversion; sensor lost
RunIdleSignals ==
    {Signal(5000, 0, t, TRUE, 1) : t \in {0, 274000}}
    \cup {Signal(4900, 20, 300000, TRUE, 2), Signal(5000, 0, 0, FALSE, 1)}

\* the signals a process call may meet: they matter where a phase begins
EnvFor(state, Heat, Idle) ==
    IF state = "START" THEN [heat : Heat, idle : Idle]
    ELSE IF state = "STABILIZE" THEN [heat : {SigInit}, idle : Idle]
    ELSE [heat : {SigInit}, idle : {SigInit}]

\* the host loop: if (!process(delta)) start();
MayProcess == host.ret

ProcessCall(d, env) ==
    LET n == Process([World EXCEPT !.adc = AdcElapse(adc, d)], d, env)
    IN /\ Apply(n)
       /\ host' = [host EXCEPT !.op = "process",
                               !.ret = ProcessReturns(World),
                               !.pre_state = heating.state,
                               !.pre_standby = preset.standby,
                               !.late = @ \/ d = LateDelta,
                               !.ok_seen = @ \/ n.h.pen_sensor_status = "OK",
                               !.idle_ma =
                                   IF n.h.state = "STOP"
                                   THEN n.h.pen_current_ma_idle ELSE @,
                               !.off_at =
                                   IF n.h.state = "STABILIZE"
                                   THEN IF heating.state = "HEATING"
                                        THEN n.h.uptime_ticks ELSE @
                                   ELSE 0]
       /\ UNCHANGED ui

HostProcess(Ds, Heat, Idle) ==
    /\ MayProcess
    /\ \E d \in Ds, env \in EnvFor(heating.state, Heat, Idle) :
           ProcessCall(d, env)

\* the host comes back late, between two periods
HostProcessLate ==
    /\ MayProcess
    /\ heating.state = "STOP"
    /\ ~host.late
    /\ ProcessCall(LateDelta, [heat |-> SigInit, idle |-> SigInit])

\* start() is called after process returned false; max: the periods of a run
HostStartUpTo(max) ==
    /\ ~host.ret
    /\ host.periods < max
    /\ \E setpoint \in GetTemperature(preset) : Apply(Start(World, setpoint))
    /\ host' = [host EXCEPT !.op = "start", !.ret = TRUE,
                            !.pre_state = heating.state,
                            !.pre_standby = preset.standby,
                            !.periods = @ + 1]
    /\ UNCHANGED ui

HostStart == HostStartUpTo(MaxPeriods)

\* The UI works on the preset between process calls.  Nothing reads or writes
\* the preset inside a period, so its events are taken between periods.
UiSelect ==
    /\ heating.state = "STOP"
    /\ \E i \in 0 .. PRESETS - 1 : preset' = Select(preset, i)
    /\ host' = [host EXCEPT !.op = "ui"]
    /\ UNCHANGED <<heating, pid, adc, heater, ui>>

UiStandby ==
    /\ heating.state = "STOP"
    /\ preset' = SetStandby(preset)
    /\ host' = [host EXCEPT !.op = "ui"]
    /\ UNCHANGED <<heating, pid, adc, heater, ui>>

Init ==
    /\ heating = HeatingInit
    /\ preset = PresetInit
    /\ pid = PidReset
    /\ adc = AdcInit
    /\ heater = HeaterInit
    /\ host = HostInit
    /\ ui = UiInit

Next ==
    \/ HostProcess(Deltas, RunHeatSignals, RunIdleSignals)
    \/ HostProcessLate
    \/ HostStart
    \/ UiSelect
    \/ UiStandby

Spec == Init /\ [][Next]_vars

(***************************************************************************)
(* The engine in front of heating elements at the limits of the classes    *)
(***************************************************************************)
\* supply (mV) and pen current (mA) of resistances 499, 500, 1499, 1500,
\* 2500, 2501, 100000 and 100001 mOhm, and of currents around 10 mA
DiagPairs ==
    {<<4990, 10000>>, <<5000, 10000>>, <<4497, 3000>>, <<4500, 3000>>,
     <<5000, 2000>>, <<5002, 2000>>, <<5000, 50>>, <<100001, 1000>>,
     <<5000, 10>>, <<5000, 11>>, <<5000, -10>>}

DiagHeatSignals == {Signal(vi[1], vi[2], 0, TRUE, 1) : vi \in DiagPairs}

DiagIdleSignals == {Signal(5000, 0, 0, TRUE, 1)}

NextDiag ==
    \/ HostProcess(Deltas, DiagHeatSignals, DiagIdleSignals)
    \/ HostStart
    \/ UiSelect

SpecDiag == Init /\ [][NextDiag]_vars

(***************************************************************************)
(* The preset store alone, driven with arbitrary arguments                 *)
(***************************************************************************)
\* preset numbers around [0, PRESETS)
PresetArgs == -1 .. PRESETS

\* values to add: a step, past either limit, the largest int
AddArgs == {1000, -1000000, 1000000, INT_MAX}

UiDone(op, arg, seq, old, idx, delta) ==
    /\ ui.ops < MaxUiOps
    /\ ui' = [op |-> op, arg |-> arg, prev |-> preset, ops |-> ui.ops + 1,
              seq |-> seq, old |-> old, idx |-> idx, delta |-> delta]
    /\ UNCHANGED <<heating, pid, adc, heater, host>>

PresetSelect ==
    \E i \in PresetArgs :
        /\ preset' = Select(preset, i)
        /\ UiDone("select", i, 0, ui.old, ui.idx, ui.delta)

PresetSetStandby ==
    /\ preset' = SetStandby(preset)
    /\ UiDone("set_standby", 0, 0, ui.old, ui.idx, ui.delta)

PresetEditSelect ==
    \E i \in PresetArgs :
        /\ preset' = EditSelect(preset, i)
        /\ IF ValidIndex(i)
           THEN UiDone("edit_select", i, 1, preset, i, ui.delta)
           ELSE UiDone("edit_select", i, 0, ui.old, ui.idx, ui.delta)

PresetEditAdd ==
    \E val \in AddArgs :
        /\ preset' \in EditAdd(preset, val)
        /\ UiDone("edit_add", val, IF ui.seq = 1 THEN 2 ELSE 0,
                  ui.old, ui.idx, val)

PresetEditEnd ==
    /\ preset' = EditEnd(preset)
    /\ UiDone("edit_end", 0, IF ui.seq = 2 THEN 3 ELSE 0,
              ui.old, ui.idx, ui.delta)

NextPreset ==
    \/ PresetSelect
    \/ PresetSetStandby
    \/ PresetEditSelect
    \/ PresetEditAdd
    \/ PresetEditEnd

SpecPreset == Init /\ [][NextPreset]_vars

(***************************************************************************)
(* The engine in front of loads that trip the current limit, deliver the   *)
(* requested energy exactly, or leak current while idle                    *)
(***************************************************************************)
\* heat phase: 9 A at 5 V; 6 A at 10 V (60 W: the 40 W of a period are
\* delivered after exactly 100 ms); a good element behind a slow conversion
LoadHeatSignals ==
    {Signal(5000, 9000, 0, TRUE, 1), Signal(10000, 6000, 0, TRUE, 1),
     Signal(5000, 3000, 0, TRUE, 2)}

\* idle phase: tip cold with 20 mA leaking; tip 50 mC below the first preset
LoadIdleSignals ==
    {Signal(5000, 20, 0, TRUE, 1), Signal(5000, 0, 274950, TRUE, 1)}

NextLoads ==
    \/ HostProcess(Deltas, LoadHeatSignals, LoadIdleSignals)
    \/ HostStart
    \/ UiSelect
    \/ UiStandby

SpecLoads == Init /\ [][NextLoads]_vars

(***************************************************************************)
(* The pen left untouched: the UI selects a preset before the first period *)
(* and never again, the element is good and the tip stays cold, so every   *)
(* period requests HEATING_POWER_MAX.  The host loop never stops calling.  *)
(***************************************************************************)
SteadyHeatSignals == {Signal(5000, 3000, 0, TRUE, 1)}

SteadyIdleSignals == {Signal(5000, 0, 0, TRUE, 1)}

\* the UI takes the preset out of its initial standby
UiSelectFirst ==
    /\ host.periods = 0
    /\ IsStandby(preset)
    /\ UiSelect

\* the host loop: while (1) { if (!process(delta)) start(); }
HostSteady ==
    \/ HostProcess(Deltas, SteadyHeatSignals, SteadyIdleSignals)
    \/ HostStartUpTo(MaxSteadyPeriods)

NextSteady ==
    \/ HostSteady
    \/ UiSelectFirst

SpecSteady == Init /\ [][NextSteady]_vars /\ WF_vars(HostSteady)

(***************************************************************************)
(* The host loop that never stops calling process, every 3 ms, in front of *)
(* conversions that take 1, 4 or 7 ms                                      *)
(***************************************************************************)
LiveDeltas == {3}

LiveHeatSignals ==
    {Signal(5000, 3000, 0, TRUE, 1), Signal(5000, 9000, 0, TRUE, 4),
     Signal(5000, -3000, 0, TRUE, 7)}

LiveIdleSignals ==
    {Signal(5000, 0, 0, TRUE, 1), Signal(5000, 0, 0, FALSE, 4),
     Signal(5000, 0, 0, TRUE, 7)}

HostLive == HostProcess(LiveDeltas, LiveHeatSignals, LiveIdleSignals)

NextLive ==
    \/ HostLive
    \/ HostStartUpTo(MaxLivePeriods)
    \/ UiSelect
    \/ UiStandby

SpecLive == Init /\ [][NextLive]_vars /\ WF_vars(HostLive)

(***************************************************************************)
(* Properties                                                              *)
(***************************************************************************)

\* C1: the heater is on exactly while the engine is in HEATING.
C1_HeaterOnlyWhileHeating == heater.on <=> heating.state = "HEATING"

\* a heat phase has ended: the heater was on and is off in STABILIZE
C1_Witness ==
    heating.state = "STABILIZE" /\ heater.ever_on /\ ~heater.on

\* C2: a process() call in STOP that finds the sensor not OK, the element
\* SHORTED or BROKEN, or more than STANDBY_TIME_MS of steady time, leaves the
\* preset in standby (get_temperature() = 0).
C2_StopForcesStandby ==
    (/\ host.op = "process"
     /\ host.pre_state = "STOP"
     /\ \/ heating.pen_sensor_status # "OK"
        \/ heating.heating_element_status \in {"SHORTED", "BROKEN"}
        \/ GetSteadyMs(heating) > STANDBY_TIME_MS)
    => (IsStandby(preset) /\ GetTemperature(preset) = {0})

\* the steady time alone took an active preset to standby
C2_Witness ==
    /\ host.op = "process"
    /\ host.pre_state = "STOP"
    /\ ~host.pre_standby
    /\ heating.pen_sensor_status = "OK"
    /\ heating.heating_element_status = "OK"
    /\ GetSteadyMs(heating) > STANDBY_TIME_MS
    /\ IsStandby(preset)

\* C3: start() after the sensor was reported not OK resets the controller
\* and requests no power; while the sensor has never been reported OK, no
\* power is requested, the heater is never switched on, and every STOP after
\* a period shows the sensor BROKEN and the element UNKNOWN.
C3_BrokenSensor ==
    /\ (host.op = "start" /\ heating.pen_sensor_status = "BROKEN")
           => /\ pid = PidReset
              /\ heating.requested_power_mw = 0
              /\ heating.requested_power_uwpt = WideZero
    /\ ~host.ok_seen
           => /\ heating.requested_power_mw = 0
              /\ ~heater.ever_on
              /\ (heating.state = "STOP" /\ host.periods > 0)
                     => /\ heating.pen_sensor_status = "BROKEN"
                        /\ heating.heating_element_status = "UNKNOWN"

\* start() after a period that heated and then lost the sensor
C3_Witness ==
    /\ host.op = "start"
    /\ heating.pen_sensor_status = "BROKEN"
    /\ heater.ever_on
    /\ pid = PidReset
    /\ heating.requested_power_mw = 0

\* C4: no measurement is started while another one is outstanding.
C4_OneMeasurement == ~adc.overlap

\* an idle measurement restarted after a heat phase, and outstanding
C4_Witness ==
    /\ heating.state = "IDLE"
    /\ heater.ever_on
    /\ heating.measurements_count > 1
    /\ adc.mode = "idle"
    /\ adc.left > 0

\* C5: select(i) and edit_select(i) with i outside [0, PRESETS) change
\* nothing, so selected stays in [0, PRESETS) and edited in [0, PRESETS) or
\* NO_EDIT.
C5_OutOfRangeIsNoOp ==
    /\ (ui.op \in {"select", "edit_select"} /\ ~ValidIndex(ui.arg))
           => preset = ui.prev
    /\ ValidIndex(preset.selected)
    /\ preset.edited = NO_EDIT \/ ValidIndex(preset.edited)

\* C6: get_temperature() is 0 in standby and temperatures[selected]
\* otherwise, and always 0 or within [MIN_TEMPERATURE, MAX_TEMPERATURE].
C6_GetTemperature ==
    \A v \in GetTemperature(preset) :
        /\ preset.standby => v = STANDBY_TEMPERATURE
        /\ ~preset.standby =>
               /\ ValidIndex(preset.selected)
               /\ v = preset.temperatures[preset.selected + 1]
        /\ v = 0 \/ (v >= MIN_TEMPERATURE /\ v <= MAX_TEMPERATURE)

\* old + delta clamped to [MIN_TEMPERATURE, MAX_TEMPERATURE], in the integers
ClampedSum(old, delta) ==
    IF delta > MAX_TEMPERATURE - old THEN MAX_TEMPERATURE
    ELSE IF delta < MIN_TEMPERATURE - old THEN MIN_TEMPERATURE
    ELSE old + delta

\* C7: edit_select(i); edit_add(delta); edit_end() with a valid i leaves
\* temperatures[i] at old + delta clamped, everything else as it was and
\* edited at NO_EDIT; edit_add with edited = NO_EDIT changes nothing.
C7_EditRoundTrip ==
    /\ ui.seq = 3 =>
           /\ preset.temperatures[ui.idx + 1]
                  = ClampedSum(ui.old.temperatures[ui.idx + 1], ui.delta)
           /\ \A j \in 1 .. PRESETS :
                  j # ui.idx + 1 =>
                      preset.temperatures[j] = ui.old.temperatures[j]
           /\ preset.selected = ui.old.selected
           /\ preset.standby = ui.old.standby
           /\ preset.edited = NO_EDIT
    /\ (ui.op = "edit_add" /\ ui.prev.edited = NO_EDIT) => preset = ui.prev

\* C8: get_energy_mwh() never decreases.
C8_EnergyNonDecreasing ==
    [][GetEnergyMwh(heating)' >= GetEnergyMwh(heating)]_vars

\* C9: with process() called every 1 ms or faster, the engine enters IDLE
\* from STABILIZE with at least IDLE_MIN_TIME_MS of ticks remaining.
C9_IdleWindow ==
    (/\ host.op = "process"
     /\ host.pre_state = "STABILIZE"
     /\ heating.state = "IDLE"
     /\ ~host.late)
    => heating.remaining_ticks >= Ms2Ticks(IDLE_MIN_TIME_MS)

\* the classes of the claim, by intervals of the resistance
C10_Class(r) ==
    CASE r < 500 -> "SHORTED"
      [] r >= 500 /\ r < 1500 -> "LOW_RESISTANCE"
      [] r >= 1500 /\ r <= 2500 -> "OK"
      [] r > 2500 /\ r <= 100000 -> "HIGH_RESISTANCE"
      [] r > 100000 -> "BROKEN"

\* C10: after a heat phase the element's status is the class of the
\* resistance just computed, and a compensated absolute current of at most
\* 10 mA gives 1000000000 mOhm and BROKEN.
C10_Classification ==
    heating.state = "STABILIZE" =>
        /\ heating.heating_element_status
               = C10_Class(heating.pen_resistance_mo)
        /\ heating.pen_current_ma_heat <= 10 =>
               /\ heating.pen_resistance_mo = 1000000000
               /\ heating.heating_element_status = "BROKEN"

\* a heat phase that measured 100001 mOhm
C10_Witness ==
    /\ heating.state = "STABILIZE"
    /\ heating.pen_resistance_mo = 100001
    /\ heating.heating_element_status = "BROKEN"

\* the telemetry at STOP of a period that heated with 5000 mV and 9000 mA
C11_After9A ==
    /\ host.op = "process"
    /\ host.pre_state = "STOP"
    /\ heating.requested_power_mw >= HEATING_MIN_POWER_MW
    /\ heating.supply_voltage_mv_heat = 5000
    /\ heating.pen_current_ma_heat = 9000

\* the heat phase with 5000 mV and 9000 mA has just ended
C11_Ended9A ==
    /\ heating.state = "STABILIZE"
    /\ adc.sig.supply_voltage = 5000
    /\ adc.sig.pen_current = 9000

\* C11 as stated: a heat phase with supply 5000 mV and pen current 9000 mA
\* ends on the first completed sample, the element is classified SHORTED,
\* and after the following process() call in STOP is_standby() is true.
C11_ShortedHeater ==
    /\ C11_Ended9A =>
           /\ heating.measurements_count = 1
           /\ heating.heating_element_status = "SHORTED"
    /\ C11_After9A => IsStandby(preset)

\* C11 amended: a heat phase with supply 5000 mV and pen current 9000 mA
\* ends on the first completed sample, the resistance is 555 mOhm and the
\* element is classified LOW_RESISTANCE; the following process() call in
\* STOP leaves is_standby() as it found it unless the sensor is not OK or
\* get_steady_ms() > STANDBY_TIME_MS.
C11_OverCurrentLowResistance ==
    /\ C11_Ended9A =>
           /\ heating.measurements_count = 1
           /\ ~heater.on
           /\ heating.pen_resistance_mo = 555
           /\ heating.heating_element_status = "LOW_RESISTANCE"
    /\ C11_After9A =>
           /\ heating.heating_element_status
                  \in {"LOW_RESISTANCE", "UNKNOWN"}
           /\ IsStandby(preset) <=>
                  \/ host.pre_standby
                  \/ heating.pen_sensor_status # "OK"
                  \/ GetSteadyMs(heating) > STANDBY_TIME_MS

\* the STOP after the 9 A period was processed and the preset is still active
C11_Witness ==
    /\ C11_After9A
    /\ heating.heating_element_status = "LOW_RESISTANCE"
    /\ heating.pen_sensor_status = "OK"
    /\ ~IsStandby(preset)

\* C12: process() returns false exactly when it finds the engine in STOP; a
\* call in STOP leaves the state STOP, the heater, the ADC and the controller
\* untouched, and changes only the tick counters and possibly the preset's
\* standby flag.
C12_ProcessInStop ==
    [][host'.op = "process" =>
          /\ host'.ret = (heating.state # "STOP")
          /\ heating.state = "STOP" =>
                 /\ heating'.state = "STOP"
                 /\ heater' = heater
                 /\ adc' = adc
                 /\ pid' = pid
                 /\ heating' =
                        [heating EXCEPT
                           !.uptime_ticks = heating'.uptime_ticks,
                           !.remaining_ticks = heating'.remaining_ticks,
                           !.steady_ticks = heating'.steady_ticks]
                 /\ preset' \in {preset, [preset EXCEPT !.standby = TRUE]}
    ]_vars

\* process() found STOP after a period that heated and returned false
C12_Witness ==
    /\ host.op = "process"
    /\ host.pre_state = "STOP"
    /\ ~host.ret
    /\ heating.state = "STOP"
    /\ heater.ever_on
    /\ ~heater.on
    /\ heating.remaining_ticks <= 0

\* the host loop has run all its periods
SteadyRunEnded == host.periods = MaxSteadyPeriods /\ ~host.ret

\* C13: with no preset change, sensor and element OK and the same requested
\* power (at least 100 mW) in every period, the preset is put in standby by
\* the time the run of MaxSteadyPeriods periods ends: _state_start resets
\* steady_ticks exactly when the short and the long average of requested
\* power differ by a value outside [-200, 150], and a STOP processed with
\* get_steady_ms() > 30000 forces standby.
C13_AutoStandby ==
    /\ [](SteadyRunEnded => IsStandby(preset))
    /\ [][(host'.op = "process" /\ heating.state = "START"
               /\ heating'.state = "HEATING") =>
              LET d == heating'.average_requested_power_short
                       - heating'.average_requested_power
                  delta == heating'.uptime_ticks - heating.uptime_ticks
              IN heating'.steady_ticks =
                     IF d >= -200 /\ d <= 150
                     THEN heating.steady_ticks + delta ELSE 0]_vars
    /\ [](( /\ host.op = "process"
            /\ host.pre_state = "STOP"
            /\ GetSteadyMs(heating) > STANDBY_TIME_MS) => IsStandby(preset))

\* periods on end of the same requested power took an active preset to
\* standby, with no late call of the host
C13_Witness ==
    /\ host.op = "process"
    /\ host.pre_state = "STOP"
    /\ ~host.pre_standby
    /\ ~host.late
    /\ heating.requested_power_mw = HEATING_POWER_MAX
    /\ heating.heating_element_status = "OK"
    /\ heating.pen_sensor_status = "OK"
    /\ GetSteadyMs(heating) > STANDBY_TIME_MS
    /\ IsStandby(preset)

C15_HeatPhaseEnd ==
    [][(host'.op = "process" /\ heating.state = "HEATING") =>
          LET delta == heating'.uptime_ticks - heating.uptime_ticks
              done == heating'.measurements_count # heating.measurements_count
              average == CDiv(heating.pen_current_ma_heat
                                  + adc.sig.pen_current,
                              heating'.measurements_count)
              stop == \/ average > PEN_MAX_CURRENT_MA
                      \/ ~WideGt(heating'.requested_power_uwpt,
                                 heating'.power_uwpt)
                      \/ heating'.remaining_ticks
                             < Ms2Ticks(STABILIZE_TIME_MS + IDLE_MIN_TIME_MS)
          IN IF done
             THEN IF stop
                  THEN heating'.state = "STABILIZE" /\ ~heater'.on
                  ELSE /\ heating'.state = "HEATING"
                       /\ heater'.on
                       /\ adc'.mode = "heat"
                       /\ adc'.left > 0
             ELSE /\ adc.left > delta
                  /\ heater' = heater
                  /\ heating' =
                         [heating EXCEPT
                            !.measure_ticks = @ + delta,
                            !.uptime_ticks = @ + delta,
                            !.remaining_ticks = @ - delta,
                            !.steady_ticks = @ + delta]
    ]_vars

\* C16: at the STOP that ends a period, whether it heated or skipped
\* heating, the idle telemetry is the average of the samples of that
\* period's idle phase alone (the readings are constant within a phase, so
\* the average is the reading).
C16_IdleTelemetry ==
    (heating.state = "STOP" /\ host.periods > 0 /\ adc.mode = "idle") =>
        /\ heating.cpu_voltage_mv_idle = adc.sig.cpu_voltage
        /\ heating.supply_voltage_mv_idle = adc.sig.supply_voltage
        /\ heating.cpu_temperature_mc = adc.sig.cpu_temperature
        /\ heating.pen_temperature_mc = adc.sig.pen_temperature
        /\ GetRealPenTemperatureMc(heating)
               = adc.sig.cpu_temperature + adc.sig.pen_temperature

\* C17: at the end of a heat phase the averaged heat current less the idle
\* current measured in the previous period's idle phase, in absolute value,
\* is stored as the heat current, and where it exceeds 10 mA the resistance
\* is the averaged heat supply voltage * 1000 over it.
C17_Compensation ==
    heating.state = "STABILIZE" =>
        LET current == Abs(adc.sig.pen_current - host.idle_ma)
        IN /\ heating.pen_current_ma_heat = current
           /\ current > 10 =>
                  heating.pen_resistance_mo
                      = CDiv(adc.sig.supply_voltage * 1000, current)

\* C18: the element status seen at the STOP of a period was classified in
\* that period or is UNKNOWN, so after a period that requested less than
\* 100 mW it is UNKNOWN, and the STOP of such a period does not put an
\* active preset in standby on the element's account.
C18_FreshClassification ==
    /\ (heating.state = "STOP" /\ host.periods > 0) =>
           \/ heating.heating_element_status = "UNKNOWN"
           \/ heating.requested_power_mw >= HEATING_MIN_POWER_MW
    /\ (/\ host.op = "process"
        /\ host.pre_state = "STOP"
        /\ host.periods > 0
        /\ heating.requested_power_mw < HEATING_MIN_POWER_MW
        /\ heating.pen_sensor_status = "OK"
        /\ GetSteadyMs(heating) <= STANDBY_TIME_MS
        /\ ~host.pre_standby)
       => ~IsStandby(preset)

\* the transitions of the claim
C19_Edges ==
    {<<"STOP", "START">>, <<"START", "HEATING">>, <<"HEATING", "STABILIZE">>,
     <<"STABILIZE", "IDLE">>, <<"IDLE", "STOP">>, <<"START", "IDLE">>}

\* C19: the state changes only along STOP -> START (by start(), and start()
\* does nothing else), START -> HEATING -> STABILIZE -> IDLE -> STOP, or
\* START -> IDLE when requested power is below HEATING_MIN_POWER_MW; one
\* call makes at most one of these transitions, and STABILIZE is left only
\* STABILIZE_TIME_MS or more after the heater was switched off.
C19_Transitions ==
    [][/\ heating'.state # heating.state =>
              <<heating.state, heating'.state>> \in C19_Edges
       /\ (host'.op = "start") =
              (heating.state = "STOP" /\ heating'.state = "START")
       /\ (heating.state = "START" /\ heating'.state = "IDLE") =>
              heating.requested_power_mw < HEATING_MIN_POWER_MW
       /\ (heating.state = "START" /\ heating'.state = "HEATING") =>
              heating.requested_power_mw >= HEATING_MIN_POWER_MW
       /\ (heating.state = "STABILIZE" /\ heating'.state = "IDLE") =>
              heating'.uptime_ticks - host.off_at
                  >= Ms2Ticks(STABILIZE_TIME_MS)
    ]_vars

\* a period that heated has come through STABILIZE into IDLE, after a
\* period that skipped heating
C19_Witness ==
    /\ host.op = "process"
    /\ host.pre_state = "STABILIZE"
    /\ heating.state = "IDLE"
    /\ host.periods > 1
    /\ heater.ever_on
    /\ ~heater.on

\* C20: with the host calling process() on and on and every conversion
\* completing, every period begun by start() reaches STOP and process()
\* returns false: a completed heat sample leaves HEATING once
\* remaining_ticks is below the stabilize and idle budget, IDLE ends on the
\* first completed sample that finds remaining_ticks <= 0, and that residue
\* is carried into the next start().
C20_PeriodEnds ==
    /\ (host.op = "start") ~> (heating.state = "STOP" /\ ~host.ret)
    /\ []((/\ heating.state = "HEATING"
            /\ heating.measurements_count > 0
            /\ heating.measure_ticks = 0)
           => heating.remaining_ticks
                  >= Ms2Ticks(STABILIZE_TIME_MS + IDLE_MIN_TIME_MS))
    /\ []((heating.state = "STOP" /\ host.periods > 0)
           => heating.remaining_ticks <= 0)
    /\ [][(/\ host'.op = "process"
            /\ heating.state = "IDLE"
            /\ heating'.measurements_count # heating.measurements_count)
           => ((heating'.state = "STOP") = (heating'.remaining_ticks <= 0))
          ]_vars
    /\ [][(host'.op = "start")
           => (heating'.remaining_ticks
                   = heating.remaining_ticks
                     + PERIOD_TIME_MS * (CORE_FREQ \div 1000))]_vars

\* a period that heated behind the slowest conversion has reached STOP with
\* a residue, and process() has returned false
C20_Witness ==
    /\ host.op = "process"
    /\ ~host.ret
    /\ heating.state = "STOP"
    /\ heating.requested_power_mw >= HEATING_MIN_POWER_MW
    /\ heating.pen_current_ma_heat = 3000
    /\ adc.sig.latency = 7
    /\ heating.remaining_ticks < 0

=============================================================================
